---- MODULE Spec2Model ----
(***************************************************************************)
(* Model of the streaming anomaly-detection monitor, MLPredictiveMonitor   *)
(* (src/ml_monitor.py).  The MQTT network thread delivers one message at a *)
(* time to on_message; the handler is modelled as a sequence of steps      *)
(* (pc) so that the states between its statements are visible.             *)
(*                                                                         *)
(* A reading is a Python dict, modelled as a function whose DOMAIN is the  *)
(* set of keys present.  Sensor values are JSON numbers.  The fitted       *)
(* IsolationForest is a library object: it is modelled as a function from  *)
(* feature vectors to a (label, score) pair that is chosen when fit() runs *)
(* and is fixed from then on.  Scores are integers in units of 10^-5.      *)
(* The dashboard (src/dashboard.py) is modelled next to it, in its own     *)
(* specification.                                                          *)
(***************************************************************************)
EXTENDS Integers, Sequences, FiniteSets, TLC

\* ------------------------------------------------------------------ bounds
\* Main specification: readings 1..Quiet are the baseline reading, the
\* readings after that are chosen freely, MaxReadings readings in all.
Quiet == 29
MaxReadings == 32
\* Window specification: long runs that fill and overflow a history.
WindowQuiet == 49
WindowReadings == 52
\* Messages that are dropped, and publishes that fail, per behaviour.
MaxBad == 1
MaxPublishFail == 1
\* readings sent while run() is followed from connect to its end
RunReadings == 31
\* Dashboard: sensor messages, then alerts, delivered to the dashboard; the
\* machine of the first DashFree of each is chosen freely.
DashReadings == 52
DashAlerts == 101
DashFree == 1

\* ------------------------------------------------------- program constants
min_training_samples == 30
maxlen == 50
\* dashboard.py: readings kept per machine, alerts kept
keep_readings == 50
keep_alerts == 100

VARIABLES
    machine_data,        \* self.machine_data: machine_id -> [readings, alerts]
    alert_history,       \* self.alert_history
    model,               \* self.model
    scaler,              \* self.scaler: number of times it has been fitted
    model_trained,       \* self.model_trained
    training_data,       \* self.training_data
    total_readings,      \* self.total_readings
    anomalies_detected,  \* self.anomalies_detected
    pc,                  \* position of the network thread inside on_message
    data,                \* local: the decoded reading
    features,            \* local: extract_features(data)
    score,               \* local: the score returned by detect_anomaly
    sent,                \* environment: readings sent to the monitor so far
    bad,                 \* environment: messages sent that must be dropped
    publish_failed,      \* environment: publishes that failed so far
    horizon,             \* environment: [quiet, limit, faults] of this run
    received,            \* history: readings stored, per machine, in order
    published,           \* history: alert ids handed to the broker
    artifact,            \* history: what models/anomaly_detector.pkl holds
    errors,              \* history: "Error processing message" lines printed
    train_calls,         \* history: calls of train_model
    detect_calls,        \* history: calls of detect_anomaly
    main,                \* position of the main thread inside run()
    net,                 \* the client's network loop: "stopped" or "running"
    connected,           \* the client holds a connection to the broker
    pending,             \* the exception propagating in run(), or "none"
    report,              \* the statistics last printed by print_statistics
    arg,                 \* the input of a function applied on its own
    output,              \* what that function returned
    dashboard_data,      \* dashboard.py: the global dashboard_data
    dpc,                 \* dashboard.py: position of the MQTT callback thread
    dmsg,                \* dashboard.py: the message the callback is handling
    dsent,               \* environment: messages delivered to the dashboard
    view                 \* dashboard.py: the response of get_data served
                         \* since the callback's last statement, if any

monitor == <<machine_data, alert_history, model, scaler, model_trained,
             training_data, total_readings, anomalies_detected>>
locals == <<pc, data, features, score>>
env == <<sent, bad, publish_failed, horizon>>
history == <<received, published, artifact, errors, train_calls, detect_calls>>
runtime == <<main, net, connected, pending, report>>
pure == <<arg, output>>
dash == <<dashboard_data, dpc, dmsg, dsent, view>>
vars == <<monitor, locals, env, history, runtime, pure, dash>>

\* ------------------------------------------------------------------ values
Machines == {"MACHINE_001", "MACHINE_002"}
SensorFields == {"temperature", "vibration", "current", "pressure", "rpm"}

\* The normal profile and the failing profile of a machine.
Typical == [temperature |-> 65, vibration |-> 2, current |-> 10,
            pressure |-> 6, rpm |-> 1500]
Extreme == [temperature |-> 120, vibration |-> 8, current |-> 20,
            pressure |-> 6, rpm |-> 1200]

\* A complete reading, a reading without its sensor fields, and a reading
\* without machine_id.
FullReading(m, ts, p) ==
    [machine_id |-> m, timestamp |-> ts, temperature |-> p.temperature,
     vibration |-> p.vibration, current |-> p.current,
     pressure |-> p.pressure, rpm |-> p.rpm]
SparseReading(m, ts) == [machine_id |-> m, timestamp |-> ts]
AnonymousReading(ts) ==
    [timestamp |-> ts, temperature |-> Typical.temperature,
     vibration |-> Typical.vibration, current |-> Typical.current,
     pressure |-> Typical.pressure, rpm |-> Typical.rpm]

Baseline(ts) == FullReading("MACHINE_001", ts, Typical)
Readings(ts) ==
    {FullReading(m, ts, p) : m \in Machines, p \in {Typical, Extreme}}
        \cup {SparseReading(m, ts) : m \in Machines}

\* dict.get(key, default)
Get(d, key, default) == IF key \in DOMAIN d THEN d[key] ELSE default

\* extract_features
extract_features_reordered(d) ==
    <<Get(d, "vibration", 0), Get(d, "temperature", 0), Get(d, "current", 0),
      Get(d, "pressure", 0), Get(d, "rpm", 0)>>
extract_features(d) ==
    <<Get(d, "temperature", 0), Get(d, "vibration", 0), Get(d, "current", 0),
      Get(d, "pressure", 0), Get(d, "rpm", 0)>>

FeatureVectors ==
    {extract_features(r) : r \in Readings(0)}

\* deque(maxlen=50).append
DequeAppendUnbounded(q, x) == Append(q, x)
DequeAppend(q, x) ==
    IF Len(q) >= maxlen THEN Append(Tail(q), x) ELSE Append(q, x)

\* ----------------------------------------------------- severity and advice
\* calculate_severity: score in units of 10^-5
calculate_severity_inclusive(s) ==
    IF s <= -50000 THEN "CRITICAL"
    ELSE IF s <= -30000 THEN "WARNING"
    ELSE "INFO"
calculate_severity(s) ==
    IF s < -50000 THEN "CRITICAL"
    ELSE IF s < -30000 THEN "WARNING"
    ELSE "INFO"

\* round(float(score), 4), in units of 10^-5: the nearest multiple of 10.
\* The scores of the model are never half-way between two multiples.
Round4(s) ==
    LET r == s % 10
        lo == s - r
    IN  IF r < 5 THEN lo
        ELSE IF r > 5 THEN lo + 10
        ELSE IF (lo \div 10) % 2 = 0 THEN lo ELSE lo + 10

\* get_recommendation: the issues found, in the order they are tested
get_recommendation_inclusive(d) ==
    LET issues ==
            (IF d["temperature"] >= 80
                THEN <<"Temperature exceeds safe threshold">> ELSE <<>>)
         \o (IF d["vibration"] > 4
                THEN <<"Excessive vibration detected">> ELSE <<>>)
         \o (IF d["current"] > 15 THEN <<"High current draw">> ELSE <<>>)
         \o (IF d["rpm"] <= 1400 THEN <<"RPM below optimal range">> ELSE <<>>)
    IN  IF issues # <<>>
            THEN [text |-> "Schedule inspection", issues |-> issues]
            ELSE [text |-> "Monitor closely for additional anomalies",
                  issues |-> <<>>]
get_recommendation(d) ==
    LET issues ==
            (IF d["temperature"] > 80
                THEN <<"Temperature exceeds safe threshold">> ELSE <<>>)
         \o (IF d["vibration"] > 4
                THEN <<"Excessive vibration detected">> ELSE <<>>)
         \o (IF d["current"] > 15 THEN <<"High current draw">> ELSE <<>>)
         \o (IF d["rpm"] < 1400 THEN <<"RPM below optimal range">> ELSE <<>>)
    IN  IF issues # <<>>
            THEN [text |-> "Schedule inspection", issues |-> issues]
            ELSE [text |-> "Monitor closely for additional anomalies",
                  issues |-> <<>>]

\* f"ALERT_{n:04d}": the decimal digits of n, zero-padded to four
RECURSIVE Digits(_)
Digits(n) == IF n < 10 THEN <<n>> ELSE Append(Digits(n \div 10), n % 10)
RECURSIVE ZeroPad(_, _)
ZeroPad(ds, width) == IF Len(ds) >= width THEN ds ELSE ZeroPad(<<0>> \o ds, width)
AlertIdStale(n) == <<"ALERT_">> \o ZeroPad(Digits(n - 1), 4)
AlertId(n) == <<"ALERT_">> \o ZeroPad(Digits(n), 4)

\* The keys handle_anomaly reads with data[...] while it builds the alert.
AlertKeys == {"timestamp"} \cup SensorFields

\* The alert dict built by handle_anomaly (lines 149-163).
MakeAlert(n, machine_id, d, s) ==
    [alert_id |-> AlertId(n),
     machine_id |-> machine_id,
     timestamp |-> d["timestamp"],
     anomaly_score |-> Round4(s),
     metrics |-> [k \in SensorFields |-> d[k]],
     severity |-> calculate_severity(s),
     recommendation |-> get_recommendation(d)]

\* ------------------------------------------------------------- the model
\* model.predict gives -1 (outlier) or 1; model.score_samples gives a score.
\* A fitted model scores a vector as normal, as a WARNING-level outlier or as
\* a CRITICAL-level outlier.
Outcomes == {[label |-> 1, score |-> -40000],
             [label |-> -1, score |-> -45000],
             [label |-> -1, score |-> -60003]}
Models == [FeatureVectors -> Outcomes]
None == [fitted |-> FALSE]
Fitted(f) == [fitted |-> TRUE, estimator |-> f]

\* detect_anomaly: <<is_anomaly, score>>
detect_anomaly_inverted(mdl, x) ==
    LET prediction == mdl.estimator[x].label
        sc == mdl.estimator[x].score
    IN  <<prediction = 1, sc>>
detect_anomaly(mdl, x) ==
    LET prediction == mdl.estimator[x].label
        sc == mdl.estimator[x].score
    IN  <<prediction = -1, sc>>

\* ------------------------------------------------------------------- Init
NoData == <<>>
NoFeatures == <<>>
NoReport == [printed |-> FALSE]
NoArg == [fn |-> "none"]
NoOutput == [done |-> FALSE]

\* dashboard.py, lines 18-26: the dashboard holds nothing; no message has
\* been delivered to it and no page has been served.
NoMessage == <<>>
NoView == [served |-> FALSE]
DashboardStart ==
    /\ dashboard_data =
            [machines |-> <<>>,
             alerts |-> <<>>,
             statistics |-> [total_readings |-> 0, total_anomalies |-> 0,
                             active_machines |-> 0]]
    /\ dpc = "idle"
    /\ dmsg = NoMessage
    /\ dsent = [sensors |-> 0, alerts |-> 0]
    /\ view = NoView

\* No function is applied on its own.
NoCall ==
    /\ arg = NoArg
    /\ output = NoOutput

\* The monitor has been constructed; run() has not been called.
NotStarted ==
    /\ main = "connect"
    /\ net = "stopped"
    /\ connected = FALSE
    /\ pending = "none"

\* run() has connected and started the network loop; it is in its while loop.
Running ==
    /\ main = "loop"
    /\ net = "running"
    /\ connected = TRUE
    /\ pending = "none"

InitMonitor ==
    /\ machine_data = <<>>
    /\ alert_history = <<>>
    /\ model = None
    /\ scaler = 0
    /\ model_trained = FALSE
    /\ training_data = <<>>
    /\ total_readings = 0
    /\ anomalies_detected = 0
    /\ pc = "idle"
    /\ data = NoData
    /\ features = NoFeatures
    /\ score = 0
    /\ sent = 0
    /\ bad = 0
    /\ publish_failed = 0
    /\ received = [m \in Machines |-> <<>>]
    /\ published = <<>>
    /\ artifact = None
    /\ errors = 0
    /\ train_calls = 0
    /\ detect_calls = 0
    /\ report = NoReport

Init ==
    /\ InitMonitor
    /\ Running
    /\ NoCall
    /\ DashboardStart
    /\ horizon = [quiet |-> Quiet, limit |-> MaxReadings, bad |-> MaxBad,
                  publish_fail |-> MaxPublishFail, save_fail |-> TRUE]

InitWindow ==
    /\ InitMonitor
    /\ Running
    /\ NoCall
    /\ DashboardStart
    /\ horizon = [quiet |-> WindowQuiet, limit |-> WindowReadings, bad |-> 0,
                  publish_fail |-> 0, save_fail |-> FALSE]

\* ---------------------------------------------------------------- actions
\* line 59: self.total_readings += 1
CountReadingForgotten(n) == n
CountReading(n) == n + 1

\* line 62: if machine_id not in self.machine_data
IsNewMachineAlways(md, machine_id) == TRUE
IsNewMachine(md, machine_id) == machine_id \notin DOMAIN md

\* line 75: if not self.model_trained
NeedsTrainingAlways == TRUE
NeedsTraining == ~model_trained

\* line 78: if len(self.training_data) >= self.min_training_samples
ThresholdReachedLate(n) == n > min_training_samples
ThresholdReached(n) == n >= min_training_samples

\* line 82: if self.model_trained
ModelReadyAlways == TRUE
ModelReady == model_trained

\* line 166: self.machine_data[machine_id]["alerts"].append(alert)
StoreAlertSkipped(md, machine_id, alert) == md
StoreAlertShared(md, machine_id, alert) ==
    [m \in DOMAIN md |-> [md[m] EXCEPT !.alerts = Append(@, alert)]]
StoreAlert(md, machine_id, alert) ==
    [md EXCEPT ![machine_id].alerts = Append(@, alert)]

\* The handler returns to the network loop; its locals go out of scope.
Return ==
    /\ pc' = "idle"
    /\ data' = NoData
    /\ features' = NoFeatures
    /\ score' = 0

\* on_message's "except Exception": the error is printed, the handler returns.
\* (Uncaught: the exception leaves on_message and ends the network loop.)
Uncaught ==
    /\ errors' = errors
    /\ pc' = "aborted"
    /\ UNCHANGED <<data, features, score>>
Caught ==
    /\ errors' = errors + 1
    /\ Return

\* The messages the broker can deliver next.
Inbox ==
    (IF sent >= horizon.limit THEN {}
     ELSE IF sent < horizon.quiet
        THEN {[json |-> TRUE, value |-> Baseline(sent + 1)]}
        ELSE {[json |-> TRUE, value |-> r] : r \in Readings(sent + 1)})
    \cup
    (IF bad >= horizon.bad THEN {}
     ELSE {[json |-> FALSE],
           [json |-> TRUE, value |-> AnonymousReading(sent + 1)]})

\* on_message (lines 48-54): decode the payload, call process_sensor_data.
OnMessage ==
    /\ pc = "idle"
    /\ net = "running"
    /\ \E msg \in Inbox :
        /\ IF msg.json /\ "machine_id" \in DOMAIN msg.value
              THEN sent' = sent + 1 /\ bad' = bad
              ELSE sent' = sent /\ bad' = bad + 1
        /\ IF ~msg.json
              THEN /\ Caught
              ELSE /\ data' = msg.value
                   /\ pc' = "process"
                   /\ UNCHANGED <<features, score, errors>>
    /\ UNCHANGED <<monitor, publish_failed, horizon, received, published,
                   artifact, train_calls, detect_calls>>
    /\ UNCHANGED <<runtime, pure, dash>>

\* process_sensor_data, lines 58-72: count, store, extract the features.
Store ==
    /\ pc = "process"
    /\ IF "machine_id" \notin DOMAIN data
          THEN /\ Caught
               /\ UNCHANGED <<machine_data, total_readings, received>>
          ELSE LET machine_id == data["machine_id"]
                   old == IF IsNewMachine(machine_data, machine_id)
                             THEN [readings |-> <<>>, alerts |-> <<>>]
                             ELSE machine_data[machine_id]
                   new == [old EXCEPT !.readings = DequeAppend(@, data)]
               IN  /\ total_readings' = CountReading(total_readings)
                   /\ machine_data' =
                        [m \in DOMAIN machine_data \cup {machine_id} |->
                            IF m = machine_id THEN new ELSE machine_data[m]]
                   /\ received' =
                        [received EXCEPT ![machine_id] = Append(@, data)]
                   /\ features' = extract_features(data)
                   /\ pc' = "collect"
                   /\ UNCHANGED <<data, score, errors>>
    /\ UNCHANGED <<alert_history, model, scaler, model_trained, training_data,
                   anomalies_detected, env, published, artifact, train_calls,
                   detect_calls>>
    /\ UNCHANGED <<runtime, pure, dash>>

\* process_sensor_data, lines 75-79: collect training data.
Collect ==
    /\ pc = "collect"
    /\ IF NeedsTraining
          THEN /\ training_data' = Append(training_data, features)
               /\ pc' = IF ThresholdReached(Len(training_data'))
                           THEN "train" ELSE "detect"
          ELSE /\ pc' = "detect"
               /\ UNCHANGED training_data
    /\ UNCHANGED <<machine_data, alert_history, model, scaler, model_trained,
                   total_readings, anomalies_detected, data, features, score,
                   env, history>>
    /\ UNCHANGED <<runtime, pure, dash>>

\* train_model, lines 102-123: fit the scaler and the model.
TrainModel ==
    /\ pc = "train"
    /\ train_calls' = train_calls + 1
    /\ scaler' = scaler + 1
    /\ \E f \in Models : model' = Fitted(f)
    /\ model_trained' = TRUE
    /\ pc' = "save"
    /\ UNCHANGED <<machine_data, alert_history, training_data, total_readings,
                   anomalies_detected, data, features, score, env, received,
                   published, artifact, errors, detect_calls>>
    /\ UNCHANGED <<runtime, pure, dash>>

\* train_model, lines 125-128: write the artifact; open() or dump() may raise.
SaveModel ==
    /\ pc = "save"
    /\ \E ok \in (IF horizon.save_fail THEN BOOLEAN ELSE {TRUE}) :
        IF ok
           THEN /\ artifact' = model
                /\ pc' = "detect"
                /\ UNCHANGED <<data, features, score, errors>>
           ELSE /\ Caught
                /\ UNCHANGED artifact
    /\ UNCHANGED <<monitor, env, received, published, train_calls,
                   detect_calls>>
    /\ UNCHANGED <<runtime, pure, dash>>

\* process_sensor_data, lines 82-88: score the reading when the model is ready.
Detect ==
    /\ pc = "detect"
    /\ IF ~ModelReady
          THEN /\ Return
               /\ UNCHANGED <<detect_calls, errors>>
          ELSE /\ detect_calls' = detect_calls + 1
               /\ IF ~model.fitted
                     \* transform and predict raise on an unfitted object
                     THEN Caught
                     ELSE LET result == detect_anomaly(model, features)
                          IN  IF result[1]
                                 THEN /\ score' = result[2]
                                      /\ pc' = "anomaly"
                                      /\ UNCHANGED <<data, features, errors>>
                                 \* log_normal_operation formats three fields
                                 ELSE IF {"temperature", "vibration", "current"}
                                            \subseteq DOMAIN data
                                         THEN Return /\ UNCHANGED errors
                                         ELSE Caught
    /\ UNCHANGED <<monitor, env, received, published, artifact, train_calls>>
    /\ UNCHANGED <<runtime, pure, dash>>

\* handle_anomaly, lines 147-167: count the anomaly, build and store the alert.
HandleAnomaly ==
    /\ pc = "anomaly"
    /\ anomalies_detected' = anomalies_detected + 1
    /\ IF ~(AlertKeys \subseteq DOMAIN data)
          THEN /\ Caught
               /\ UNCHANGED <<machine_data, alert_history>>
          ELSE LET machine_id == data["machine_id"]
                   alert == MakeAlert(anomalies_detected', machine_id, data,
                                      score)
               IN  /\ machine_data' =
                        StoreAlert(machine_data, machine_id, alert)
                   /\ alert_history' = Append(alert_history, alert)
                   /\ pc' = "publish"
                   /\ UNCHANGED <<data, features, score, errors>>
    /\ UNCHANGED <<model, scaler, model_trained, training_data, total_readings,
                   env, received, published, artifact, train_calls,
                   detect_calls>>
    /\ UNCHANGED <<runtime, pure, dash>>

\* handle_anomaly, lines 169-195: publish the alert, then print it.
\* publish() hands the alert to the broker, returns an error code (which the
\* code does not read) or raises.
PublishOutcomes ==
    {"ok"} \cup (IF publish_failed < horizon.publish_fail
                    THEN {"rc_error", "raises"} ELSE {})

Publish ==
    /\ pc = "publish"
    /\ \E outcome \in PublishOutcomes :
        /\ published' = IF outcome = "ok"
                           THEN Append(published,
                                       alert_history[Len(alert_history)].alert_id)
                           ELSE published
        /\ publish_failed' = IF outcome = "ok" THEN publish_failed
                                               ELSE publish_failed + 1
        /\ IF outcome = "raises" THEN Caught ELSE Return /\ UNCHANGED errors
    /\ UNCHANGED <<monitor, sent, bad, horizon, received, artifact,
                   train_calls, detect_calls>>
    /\ UNCHANGED <<runtime, pure, dash>>

Next ==
    \/ OnMessage
    \/ Store
    \/ Collect
    \/ TrainModel
    \/ SaveModel
    \/ Detect
    \/ HandleAnomaly
    \/ Publish

Spec == Init /\ [][Next]_vars
SpecWindow == InitWindow /\ [][Next]_vars

\* ----------------------------------------------------------------- claims
Last(q) == q[Len(q)]
LastN(q, n) == SubSeq(q, Len(q) - (IF Len(q) < n THEN Len(q) ELSE n) + 1, Len(q))

\* C1: while fewer than 30 feature vectors have been collected, and as long
\* as model_trained is false, detect_anomaly has never been called, no alert
\* is in the alert history or in any machine's alert list, nothing has been
\* published and anomalies_detected is 0.
C1_ScoringGated ==
    (Len(training_data) < min_training_samples \/ ~model_trained) =>
        /\ detect_calls = 0
        /\ alert_history = <<>>
        /\ \A m \in DOMAIN machine_data : machine_data[m].alerts = <<>>
        /\ published = <<>>
        /\ anomalies_detected = 0

\* The 29th reading has reached the scoring gate and the model is not trained.
C1_Witness ==
    /\ pc = "detect"
    /\ ~model_trained
    /\ Len(training_data) = min_training_samples - 1

\* C2: train_model runs at most once, and exactly once as soon as 30 feature
\* vectors have been collected; the scaler and the model are fitted once.
C2_TrainedOnce ==
    /\ train_calls =
         (IF Len(training_data) >= min_training_samples /\ pc # "train"
             THEN 1 ELSE 0)
    /\ scaler = train_calls
    /\ model.fitted <=> (train_calls = 1)

\* Two more readings have been processed after the one that trained the model.
C2_Witness ==
    /\ train_calls = 1
    /\ total_readings = min_training_samples + 2
    /\ pc = "idle"

\* C3 as stated: after exactly 30 readings the model is READY, no alert has
\* been emitted and the 30th reading has not been scored.
C3_ThirtiethNotScored ==
    (total_readings = min_training_samples /\ pc = "idle") =>
        /\ model_trained
        /\ detect_calls = 0
        /\ alert_history = <<>>
        /\ anomalies_detected = 0

\* C3 as amended: after exactly 30 readings the model is READY and none of
\* the first 29 readings has been scored; the 30th reading is scored by the
\* new model in the same pass unless writing the artifact failed, so at most
\* one anomaly has been counted and at most one alert emitted, and that alert
\* is for the 30th reading.
C3_ThirtiethTrainsThenScores ==
    /\ total_readings < min_training_samples => detect_calls = 0
    /\ (total_readings = min_training_samples /\ pc = "idle") =>
        /\ model_trained
        /\ detect_calls = (IF artifact = None THEN 0 ELSE 1)
        /\ anomalies_detected <= detect_calls
        /\ Len(alert_history) <= anomalies_detected
        /\ \A i \in 1..Len(alert_history) :
              alert_history[i].timestamp = min_training_samples

\* The 30th reading has been processed and has produced an alert.
C3_Witness ==
    /\ total_readings = min_training_samples
    /\ pc = "idle"
    /\ Len(alert_history) = 1

\* C4: once model_trained is true it stays true, the scaler and the model
\* are never refitted or replaced, and the training set is never appended to
\* again: it keeps the 30 vectors it had when training ran.
C4_Irreversible ==
    [][/\ model_trained =>
            /\ model_trained'
            /\ model' = model
            /\ scaler' = scaler
            /\ training_data' = training_data
       /\ model_trained' => Len(training_data') = min_training_samples]_vars

\* A reading that arrived after training is at the collect step.
C4_Witness ==
    /\ model_trained
    /\ pc = "collect"
    /\ total_readings > min_training_samples

\* C5: anomalies_detected <= total_readings in every state, the states
\* inside process_sensor_data and handle_anomaly included.
C5_AnomaliesAtMostReadings == anomalies_detected <= total_readings

\* Inside handle_anomaly, after the second anomaly has been counted.
C5_Witness ==
    /\ pc = "publish"
    /\ anomalies_detected >= 2

\* C6: a machine's history never holds more than 50 readings, and it is the
\* last min(50, n) readings received for that machine, in arrival order.
C6_WindowBounded ==
    \A m \in DOMAIN machine_data :
        /\ Len(machine_data[m].readings) <= maxlen
        /\ machine_data[m].readings = LastN(received[m], maxlen)

\* A machine has received more than 50 readings; its history holds 50.
C6_Witness ==
    \E m \in DOMAIN machine_data :
        /\ Len(received[m]) > maxlen
        /\ Len(machine_data[m].readings) = maxlen

\* C7: a message that cannot be decoded, or that has no machine_id, is dropped:
\* no step of its handling changes the monitor's state, the handler returns
\* to the network loop with the error printed, and the monitor has counted
\* exactly the readings that carried a machine_id.
C7_BadMessageDropped ==
    [][/\ bad' # bad =>
            /\ monitor' = monitor
            /\ \/ pc' = "idle" /\ errors' = errors + 1
               \/ pc' = "process" /\ "machine_id" \notin DOMAIN data'
       /\ (pc = "process" /\ "machine_id" \notin DOMAIN data) =>
            /\ monitor' = monitor
            /\ pc' = "idle"
            /\ errors' = errors + 1
       /\ total_readings' =
            sent' - (IF pc' = "process" /\ "machine_id" \in DOMAIN data'
                        THEN 1 ELSE 0)]_vars

\* A message has been dropped and a later reading is being processed.
C7_Witness ==
    /\ bad >= 1
    /\ errors >= 1
    /\ pc = "collect"

\* C8: when writing the artifact fails the handler returns with the model
\* fitted and model_trained true; from then on the model and the scaler are
\* kept, train_model is not called again, and every later reading is scored.
SaveFailed == model_trained /\ pc # "save" /\ artifact = None
C8_SaveFailureNotFatal ==
    [][/\ (pc = "save" /\ artifact' = None) =>
            /\ pc' = "idle"
            /\ model_trained'
            /\ model'.fitted
       /\ SaveFailed =>
            /\ model' = model
            /\ scaler' = scaler
            /\ model_trained'
       /\ SaveFailed' =>
            /\ train_calls' = 1
            /\ scaler' = 1
            /\ detect_calls' =
                 total_readings' - min_training_samples
                    - (IF pc' \in {"collect", "detect"} THEN 1 ELSE 0)]_vars

\* Writing the artifact failed and two later readings have been scored.
C8_Witness ==
    /\ SaveFailed
    /\ detect_calls = 2
    /\ pc = "idle"

\* C9: the reading during which writing the artifact fails completes the
\* remaining stages: every reading from the 30th on has been scored when its
\* handler returns, as it is when the artifact is written.
C9_PipelineCompletes ==
    (pc = "idle" /\ model_trained) =>
        detect_calls = total_readings - (min_training_samples - 1)

\* C10: when handle_anomaly reaches the publish step the alert is the last
\* entry of the alert history and of its machine's alert list and carries the
\* id of the incremented counter; the publish step, whatever its outcome,
\* leaves the history, the machine's list and anomalies_detected unchanged.
AlertRecorded ==
    /\ alert_history # <<>>
    /\ Last(alert_history).alert_id = AlertId(anomalies_detected)
    /\ Last(alert_history).machine_id = data["machine_id"]
    /\ machine_data[data["machine_id"]].alerts # <<>>
    /\ Last(machine_data[data["machine_id"]].alerts) = Last(alert_history)
C10_PublishFailureKeepsAlert ==
    [][/\ pc' = "publish" => AlertRecorded'
       /\ pc = "publish" =>
            /\ alert_history' = alert_history
            /\ machine_data' = machine_data
            /\ anomalies_detected' = anomalies_detected
            /\ pc' = "idle"]_vars

\* A publish has failed; its alert is stored and counted but was not sent.
C10_Witness ==
    /\ pc = "idle"
    /\ publish_failed >= 1
    /\ alert_history # <<>>
    /\ Len(published) < Len(alert_history)

\* C11: whenever a publish fails the failure reaches the caller of the alert
\* path: handle_anomaly returns no status, so the failure is raised and
\* on_message prints it.
C11_PublishFailureSurfaced ==
    [][(pc = "publish" /\ publish_failed' > publish_failed) =>
            errors' = errors + 1]_vars

\* C12: in the alert history the number in each alert_id is greater than the
\* number in every earlier one, so no two alerts share an alert_id; and the
\* alert stored for the first anomaly handled has the id ALERT_0001.
RECURSIVE Number(_)
Number(ds) ==
    IF ds = <<>> THEN 0
    ELSE 10 * Number(SubSeq(ds, 1, Len(ds) - 1)) + ds[Len(ds)]
AlertNumber(id) == Number(Tail(id))
C12_AlertIdsIncrease ==
    [][/\ \A i, j \in 1..Len(alert_history') :
            i < j =>
                /\ AlertNumber(alert_history'[i].alert_id)
                     < AlertNumber(alert_history'[j].alert_id)
                /\ alert_history'[i].alert_id # alert_history'[j].alert_id
       /\ (anomalies_detected = 0 /\ alert_history' # alert_history) =>
            Last(alert_history').alert_id = <<"ALERT_", 0, 0, 0, 1>>]_vars

\* Three anomalies have been handled and two of them have a stored alert.
C12_Witness ==
    /\ Len(alert_history) = 2
    /\ anomalies_detected = 3

\* C13: every alert is stored once in the alert history and once in the list
\* of the machine whose reading triggered it, and carries that reading's
\* machine_id, timestamp and sensor values and the score the model gives to
\* that reading's feature vector; every alert in machine m's list has
\* machine_id m.
AlertOfReading(a, r) ==
    /\ AlertKeys \subseteq DOMAIN r
    /\ r["machine_id"] = a.machine_id
    /\ r["timestamp"] = a.timestamp
    /\ a.metrics = [k \in SensorFields |-> r[k]]
    /\ model.fitted
    /\ model.estimator[extract_features(r)].label = -1
    /\ a.anomaly_score = Round4(model.estimator[extract_features(r)].score)
C13_AlertsMatchReadings ==
    /\ \A m \in DOMAIN machine_data :
        LET Mine(a) == a.machine_id = m
        IN  /\ machine_data[m].alerts = SelectSeq(alert_history, Mine)
            /\ \A i \in 1..Len(machine_data[m].alerts) :
                    machine_data[m].alerts[i].machine_id = m
    /\ \A i \in 1..Len(alert_history) :
        /\ alert_history[i].machine_id \in DOMAIN machine_data
        /\ \E k \in 1..Len(received[alert_history[i].machine_id]) :
              AlertOfReading(alert_history[i],
                             received[alert_history[i].machine_id][k])
        /\ \A j \in 1..Len(alert_history) :
              i # j => alert_history[i].timestamp # alert_history[j].timestamp

\* Both machines have an alert in their list.
C13_Witness ==
    /\ pc = "idle"
    /\ \A m \in Machines :
        m \in DOMAIN machine_data /\ machine_data[m].alerts # <<>>

\* C14 as stated: a reading that the model classifies as normal changes
\* nothing but total_readings and its machine's reading history.
AlertsOf(m) ==
    IF m \in DOMAIN machine_data THEN machine_data[m].alerts ELSE <<>>
AlertState ==
    <<anomalies_detected, alert_history, [m \in Machines |-> AlertsOf(m)],
      published>>
ModelState == <<model, scaler, model_trained>>
ClassifiedNormal ==
    /\ pc \notin {"idle", "process"}
    /\ model.fitted
    /\ model.estimator[features].label = 1
OtherMachinesKept ==
    \A m \in DOMAIN machine_data :
        (DOMAIN data = {} \/ m # data["machine_id"]) =>
            machine_data'[m] = machine_data[m]
C14_NormalReadingOnlyCounts ==
    [][(ClassifiedNormal \/ ClassifiedNormal') =>
            /\ AlertState' = AlertState
            /\ OtherMachinesKept
            /\ ModelState' = ModelState
            /\ training_data' = training_data]_vars

\* C14 as amended: no stage before scoring creates an alert, and a reading
\* that the model classifies as normal leaves anomalies_detected, the alert
\* history, every machine's alert list and the published alerts unchanged;
\* it changes total_readings and its machine's reading history, and the
\* reading that completes the training set also fits the scaler and the
\* model and sets model_trained; the scoring step itself changes nothing.
C14_NormalReadingNoAlert ==
    [][/\ pc \in {"idle", "process", "collect", "train", "save"} =>
            AlertState' = AlertState
       /\ (ClassifiedNormal \/ ClassifiedNormal') =>
            /\ AlertState' = AlertState
            /\ OtherMachinesKept
            /\ pc # "train" => ModelState' = ModelState
            /\ training_data' = training_data
            /\ pc = "detect" => (monitor' = monitor /\ pc' = "idle")]_vars

\* A reading classified as normal is at the scoring step; alerts exist.
C14_Witness ==
    /\ pc = "detect"
    /\ ClassifiedNormal
    /\ alert_history # <<>>

\* C18: machine_data has exactly one entry per machine_id seen; the entry is
\* created at the machine's first reading, with that reading as its history
\* and no alerts; it is never removed and never created again, so the
\* number of machines never decreases.
C18_OneStatePerMachine ==
    [][/\ DOMAIN machine_data' = {m \in Machines : received'[m] # <<>>}
       /\ DOMAIN machine_data \subseteq DOMAIN machine_data'
       /\ Cardinality(DOMAIN machine_data')
            >= Cardinality(DOMAIN machine_data)
       /\ \A m \in DOMAIN machine_data' \ DOMAIN machine_data :
            /\ pc = "process"
            /\ m = data["machine_id"]
            /\ machine_data'[m] = [readings |-> <<data>>, alerts |-> <<>>]
       /\ \A m \in DOMAIN machine_data :
            /\ Len(machine_data'[m].readings) >= Len(machine_data[m].readings)
            /\ Len(machine_data'[m].alerts) >= Len(machine_data[m].alerts)
            /\ SubSeq(machine_data'[m].alerts, 1, Len(machine_data[m].alerts))
                 = machine_data[m].alerts]_vars

\* The machine seen second has stored its second reading.
C18_Witness ==
    /\ Cardinality(DOMAIN machine_data) = 2
    /\ Len(received["MACHINE_002"]) = 2
    /\ Len(machine_data["MACHINE_002"].readings) = 2

\* ------------------------------------------------------------------ run()
\* The main thread inside run() (lines 243-275), next to the network thread
\* that loop_start() creates and that calls on_message.
InitRun ==
    /\ InitMonitor
    /\ NotStarted
    /\ NoCall
    /\ DashboardStart
    /\ horizon = [quiet |-> RunReadings, limit |-> RunReadings, bad |-> 0,
                  publish_fail |-> 0, save_fail |-> FALSE]

\* The positions of run() inside its try statement (lines 255-271).
InTry == {"try", "loop", "except"}

\* Where an exception that no except clause takes sends run(): to the finally
\* block when it is raised inside the try statement, out of run() otherwise.
UnwindNoFinally(position) == "aborted"
Unwind(position) == IF position \in InTry THEN "finally" ELSE "aborted"

\* "{:.2f}" of anomalies/max(total, 1)*100, in hundredths of a percent
\* (an exact tie goes to the even digit).
Rate(anomalies, total) ==
    LET d == IF total > 1 THEN total ELSE 1
        q == (anomalies * 10000) \div d
        r == (anomalies * 10000) % d
    IN  IF 2 * r > d THEN q + 1
        ELSE IF 2 * r < d THEN q
        ELSE IF q % 2 = 0 THEN q ELSE q + 1

\* What print_statistics prints (lines 235-239).
Statistics ==
    [printed |-> TRUE,
     total_readings |-> total_readings,
     anomalies_detected |-> anomalies_detected,
     rate |-> Rate(anomalies_detected, total_readings),
     machines |-> Cardinality(DOMAIN machine_data),
     trained |-> model_trained]

\* print_statistics (lines 231-241): it prints and assigns nothing.
print_statistics_counting ==
    /\ report' = Statistics
    /\ total_readings' = total_readings + 1
    /\ UNCHANGED <<machine_data, alert_history, model, scaler, model_trained,
                   training_data, anomalies_detected>>
print_statistics ==
    /\ report' = Statistics
    /\ UNCHANGED monitor

\* line 250: client.connect; it raises when the broker cannot be reached.
Connect ==
    /\ main = "connect"
    /\ \E reached \in BOOLEAN :
        IF reached
            THEN /\ connected' = TRUE
                 /\ main' = "ready"
                 /\ pending' = "none"
            ELSE /\ connected' = FALSE
                 /\ main' = Unwind(main)
                 /\ pending' = "Exception"
    /\ UNCHANGED <<net, report, monitor, locals, env, history, pure, dash>>

\* lines 252-255: the two prints; control enters the try statement.
EnterTry ==
    /\ main = "ready"
    /\ main' = "try"
    /\ UNCHANGED <<net, connected, pending, report, monitor, locals, env,
                   history, pure, dash>>

\* line 259: loop_start creates the network thread; the while loop begins.
LoopStart ==
    /\ main = "try"
    /\ net' = "running"
    /\ main' = "loop"
    /\ UNCHANGED <<connected, pending, report, monitor, locals, env, history,
                   pure, dash>>

\* lines 265-267: thirty seconds have passed, the statistics are printed.
PrintStatistics ==
    /\ main = "loop"
    /\ print_statistics
    /\ UNCHANGED <<main, net, connected, pending, locals, env, history, pure, dash>>

\* Ctrl-C: KeyboardInterrupt is raised in the main thread.  Inside the try
\* statement the except clause of line 269 takes it; before it (lines
\* 252-253) nothing does.
Interrupt ==
    /\ main \in {"ready", "try", "loop"}
    /\ pending' = "KeyboardInterrupt"
    /\ main' = IF main \in InTry THEN "except" ELSE Unwind(main)
    /\ UNCHANGED <<net, connected, report, monitor, locals, env, history,
                   pure, dash>>

\* lines 262-267: the loop body raises an exception other than
\* KeyboardInterrupt.
LoopError ==
    /\ main = "loop"
    /\ pending' = "Exception"
    /\ main' = Unwind(main)
    /\ UNCHANGED <<net, connected, report, monitor, locals, env, history,
                   pure, dash>>

\* lines 269-271: the handler prints the statistics; the exception is handled.
ExceptClause ==
    /\ main = "except"
    /\ print_statistics
    /\ pending' = "none"
    /\ main' = "finally"
    /\ UNCHANGED <<net, connected, locals, env, history, pure, dash>>

\* line 273: loop_stop asks the network thread to end and joins it; the
\* thread ends when the callback it is running has returned.
LoopStop ==
    /\ main = "finally"
    /\ pc = "idle"
    /\ net' = "stopped"
    /\ main' = "disconnect"
    /\ UNCHANGED <<connected, pending, report, monitor, locals, env, history,
                   pure, dash>>

\* lines 274-275: disconnect; run() returns, or the exception goes on.
Disconnect ==
    /\ main = "disconnect"
    /\ connected' = FALSE
    /\ main' = IF pending = "none" THEN "returned" ELSE "raised"
    /\ UNCHANGED <<net, pending, report, monitor, locals, env, history, pure, dash>>

NextRun ==
    \/ OnMessage
    \/ Store
    \/ Collect
    \/ TrainModel
    \/ SaveModel
    \/ Detect
    \/ HandleAnomaly
    \/ Publish
    \/ Connect
    \/ EnterTry
    \/ LoopStart
    \/ PrintStatistics
    \/ Interrupt
    \/ LoopError
    \/ ExceptClause
    \/ LoopStop
    \/ Disconnect

SpecRun == InitRun /\ [][NextRun]_vars

\* C17: the attributes of the monitor change only in steps of the message
\* handler, taken by the network thread while it is running; the steps of
\* the main thread, print_statistics among them, leave every attribute and
\* the handler's locals unchanged; a reading is handed to process_sensor_data
\* only when the handler is idle and holds no reading, so no two executions
\* overlap.
C17_SingleOwner ==
    [][/\ (monitor' # monitor) =>
            /\ pc # "idle"
            /\ net = "running"
            /\ UNCHANGED runtime
       /\ (runtime' # runtime) => UNCHANGED <<monitor, locals>>
       /\ (locals' # locals) => net = "running"
       /\ (data' # data /\ data' # NoData) => (pc = "idle" /\ data = NoData)]_vars

\* The statistics were printed while the handler was processing a reading,
\* and the handler has counted a reading since.
C17_Witness ==
    /\ report.printed
    /\ report.total_readings > 0
    /\ total_readings > report.total_readings
    /\ pc = "detect"
    /\ main = "loop"

\* C19: the while loop of run() is left only by an exception (Ctrl-C or
\* another one); whenever control leaves the try statement it enters the
\* finally block; run() ends after the loop only with the network loop
\* stopped and the client disconnected, the loop being stopped first.
C19_TransportReleased ==
    [][/\ (main = "loop" /\ main' # "loop") =>
            /\ main' \in {"except", "finally"}
            /\ pending' # "none"
       /\ (main \in InTry /\ main' \notin InTry) => main' = "finally"
       /\ (main' \in {"returned", "raised"}) =>
            /\ net' = "stopped"
            /\ ~connected'
       /\ (connected /\ ~connected') => net = "stopped"]_vars

\* run() has ended by an exception other than Ctrl-C raised in the loop,
\* after readings were processed.
C19_Witness ==
    /\ main = "raised"
    /\ pending = "Exception"
    /\ net = "stopped"
    /\ ~connected
    /\ total_readings > 0

\* ------------------------------------------ functions applied on their own
\* calculate_severity, the alert built by handle_anomaly and extract_features
\* applied to one input each, on a monitor that has processed nothing.
SeverityInputs ==
    {-60000, -50001, -50000, -49999, -40000, -30001, -30000, -29999, -10000, 0}

AlertInputs ==
    {[fn |-> "alert", reading |-> FullReading("MACHINE_001", 1, p), score |-> s] :
        p \in [temperature : {80, 81, 95}, vibration : {1, 4, 5},
               current : {5, 15, 16}, pressure : {6},
               rpm : {1399, 1400, 1500}],
        s \in {-60003, -50003, -30004, -10000}}

\* A dict with any of the keys of a reading present.
ReadingWith(keys) ==
    [k \in keys |->
        IF k = "machine_id" THEN "MACHINE_001"
        ELSE IF k = "timestamp" THEN 1
        ELSE Extreme[k]]
ExtractInputs ==
    {[fn |-> "extract", reading |-> ReadingWith(keys)] :
        keys \in SUBSET ({"machine_id", "timestamp"} \cup SensorFields)}

PureInputs ==
    {[fn |-> "severity", score |-> s] : s \in SeverityInputs}
        \cup AlertInputs \cup ExtractInputs

InitPure ==
    /\ InitMonitor
    /\ NotStarted
    /\ horizon = [quiet |-> 0, limit |-> 0, bad |-> 0, publish_fail |-> 0,
                  save_fail |-> FALSE]
    /\ arg \in PureInputs
    /\ DashboardStart
    /\ output = NoOutput

\* calculate_severity(score)
ApplySeverity ==
    /\ arg.fn = "severity"
    /\ ~output.done
    /\ output' = [done |-> TRUE, value |-> calculate_severity(arg.score)]
    /\ UNCHANGED <<monitor, locals, env, history, runtime, arg, dash>>

\* the alert of handle_anomaly(machine_id, data, score), lines 149-163
ApplyAlert ==
    /\ arg.fn = "alert"
    /\ ~output.done
    /\ output' = [done |-> TRUE,
                  value |-> MakeAlert(1, arg.reading["machine_id"],
                                      arg.reading, arg.score)]
    /\ UNCHANGED <<monitor, locals, env, history, runtime, arg, dash>>

\* extract_features(data), applied a first and a second time
ApplyExtract ==
    /\ arg.fn = "extract"
    /\ IF ~output.done
          THEN output' = [done |-> TRUE, calls |-> 1,
                          value |-> extract_features(arg.reading),
                          first |-> extract_features(arg.reading)]
          ELSE /\ output.calls < 2
               /\ output' = [output EXCEPT
                                !.calls = 2,
                                !.value = extract_features(arg.reading)]
    /\ UNCHANGED <<monitor, locals, env, history, runtime, arg, dash>>

NextPure ==
    \/ ApplySeverity
    \/ ApplyAlert
    \/ ApplyExtract

SpecPure == InitPure /\ [][NextPure]_vars

\* C15: calculate_severity gives CRITICAL exactly for score < -0.5, WARNING
\* exactly for -0.5 <= score < -0.3 and INFO for every other score; -0.5 is
\* WARNING and -0.3 is INFO.
C15_SeverityThresholds ==
    (arg.fn = "severity" /\ output.done) =>
        /\ output.value \in {"CRITICAL", "WARNING", "INFO"}
        /\ (output.value = "CRITICAL") <=> (arg.score < -50000)
        /\ (output.value = "WARNING") <=>
                (-50000 <= arg.score /\ arg.score < -30000)
        /\ (output.value = "INFO") <=> (arg.score >= -30000)

\* The boundary -0.5 has been classified.
C15_Witness ==
    /\ arg.fn = "severity"
    /\ arg.score = -50000
    /\ output.done
    /\ output.value = "WARNING"

\* C16: the recommendation of an alert names exactly the thresholds its
\* reading violates among temperature > 80, vibration > 4.0, current > 15 and
\* rpm < 1400, in that order and once each; it is the monitor-closely message
\* exactly when none is violated; it is the same for every score.
IssueOrder ==
    <<"Temperature exceeds safe threshold", "Excessive vibration detected",
      "High current draw", "RPM below optimal range">>
IssueHolds(r, i) ==
    CASE i = 1 -> r["temperature"] > 80
      [] i = 2 -> r["vibration"] > 4
      [] i = 3 -> r["current"] > 15
      [] i = 4 -> r["rpm"] < 1400
C16_RecommendationFromMetrics ==
    (arg.fn = "alert" /\ output.done) =>
        LET rec == output.value.recommendation
            found == {i \in 1..4 : IssueHolds(arg.reading, i)}
            Place(k) == CHOOSE i \in 1..4 : IssueOrder[i] = rec.issues[k]
        IN  /\ Len(rec.issues) = Cardinality(found)
            /\ \A k \in 1..Len(rec.issues) :
                    /\ \E i \in found : IssueOrder[i] = rec.issues[k]
                    /\ \A l \in 1..Len(rec.issues) :
                            k < l => Place(k) < Place(l)
            /\ (rec.text = "Monitor closely for additional anomalies")
                    <=> (found = {})
            /\ (rec.text = "Schedule inspection") <=> (found # {})
            /\ \A s \in SeverityInputs :
                    MakeAlert(1, arg.reading["machine_id"], arg.reading,
                              s).recommendation = rec

\* The reading with temperature 95, vibration 1, current 5 and rpm 1500.
C16_Witness ==
    /\ arg.fn = "alert"
    /\ arg.reading["temperature"] = 95
    /\ arg.reading["vibration"] = 1
    /\ arg.reading["current"] = 5
    /\ arg.reading["rpm"] = 1500
    /\ output.done
    /\ output.value.recommendation.issues
         = <<"Temperature exceeds safe threshold">>

\* C20: extract_features returns, for every dict, the five values of
\* temperature, vibration, current, pressure and rpm in that order, 0 for a
\* key that is absent; it can always be applied, a second application gives
\* the same vector, and it leaves the monitor as it was constructed.
FieldOrder == <<"temperature", "vibration", "current", "pressure", "rpm">>
C20_ExtractTotalStateless ==
    (arg.fn = "extract") =>
        /\ (~output.done \/ output.calls < 2) => ENABLED ApplyExtract
        /\ output.done =>
            /\ Len(output.value) = 5
            /\ \A i \in 1..5 :
                  output.value[i] =
                    (IF FieldOrder[i] \in DOMAIN arg.reading
                        THEN arg.reading[FieldOrder[i]] ELSE 0)
            /\ output.value = output.first
        /\ machine_data = <<>>
        /\ training_data = <<>>
        /\ alert_history = <<>>
        /\ model = None
        /\ ~model_trained
        /\ total_readings = 0
        /\ anomalies_detected = 0

\* A dict with temperature and without vibration has been extracted twice.
C20_Witness ==
    /\ arg.fn = "extract"
    /\ "temperature" \in DOMAIN arg.reading
    /\ "vibration" \notin DOMAIN arg.reading
    /\ output.done
    /\ output.calls = 2
    /\ output.value[1] = Extreme.temperature
    /\ output.value[2] = 0

\* C21: whenever the handler is idle, anomalies_detected equals the number
\* of alerts in alert_history, which equals the number of alerts in the
\* machines' alert lists taken together, and the i-th alert of alert_history
\* carries the i-th alert id.
RECURSIVE AlertsStored(_)
AlertsStored(ms) ==
    IF ms = {} THEN 0
    ELSE LET m == CHOOSE x \in ms : TRUE
         IN  Len(machine_data[m].alerts) + AlertsStored(ms \ {m})
C21_EveryAnomalyHasAlert ==
    (pc = "idle") =>
        /\ anomalies_detected = Len(alert_history)
        /\ Len(alert_history) = AlertsStored(DOMAIN machine_data)
        /\ \A i \in 1..Len(alert_history) :
                alert_history[i].alert_id = <<"ALERT_">> \o ZeroPad(Digits(i), 4)

\* C22: the severity of an alert is the one the thresholds (CRITICAL below
\* -0.5, WARNING below -0.3, INFO otherwise) give to the anomaly_score the
\* same alert records.
SeverityOfRecorded(x) ==
    IF x < -50000 THEN "CRITICAL"
    ELSE IF x < -30000 THEN "WARNING"
    ELSE "INFO"
C22_AlertSelfConsistent ==
    (arg.fn = "alert" /\ output.done) =>
        output.value.severity = SeverityOfRecorded(output.value.anomaly_score)

\* ------------------------------------------------------------ dashboard
\* src/dashboard.py: the thread started at line 171 runs loop_forever and
\* calls on_message for one message at a time; the web server's threads
\* serve the HTTP routes meanwhile.  dashboard_data is shared without a lock,
\* so a route can run between any two statements of the callback.  A response
\* is kept in view until the callback's next statement.
InitDashboard ==
    /\ InitMonitor
    /\ NotStarted
    /\ NoCall
    /\ DashboardStart
    /\ horizon = [quiet |-> 0, limit |-> 0, bad |-> 0, publish_fail |-> 0,
                  save_fail |-> FALSE]

\* The messages the broker can deliver to the dashboard next: the sensor
\* messages, then the alerts the monitor has published.
DashInbox ==
    IF dsent.sensors < DashReadings
        THEN {[topic |-> "sensors",
               data |-> [machine_id |-> m, timestamp |-> dsent.sensors + 1]] :
                m \in (IF dsent.sensors < DashFree THEN Machines
                                                   ELSE {"MACHINE_001"})}
    ELSE IF dsent.alerts < DashAlerts
        THEN {[topic |-> "alerts",
               data |-> [machine_id |-> m,
                         alert_id |-> AlertId(dsent.alerts + 1)]] :
                m \in (IF dsent.alerts < DashFree THEN Machines
                                                  ELSE {"MACHINE_001"})}
    ELSE {}

\* on_message, lines 42-54: decode, dispatch on the topic.
DashOnMessage ==
    /\ dpc = "idle"
    /\ \E msg \in DashInbox :
        /\ dmsg' = msg.data
        /\ IF msg.topic = "sensors"
              THEN /\ dpc' = "sensor"
                   /\ dsent' = [dsent EXCEPT !.sensors = @ + 1]
              ELSE /\ dpc' = "alert"
                   /\ dsent' = [dsent EXCEPT !.alerts = @ + 1]
    /\ view' = NoView
    /\ UNCHANGED dashboard_data
    /\ UNCHANGED <<monitor, locals, env, history, runtime, pure>>

\* handle_sensor_data, lines 61-69: the entry of a machine seen first.
NewMachine ==
    /\ dpc = "sensor"
    /\ IF dmsg.machine_id \notin DOMAIN dashboard_data.machines
          THEN /\ dashboard_data' =
                    [dashboard_data EXCEPT !.machines =
                        [m \in DOMAIN @ \cup {dmsg.machine_id} |->
                            IF m = dmsg.machine_id
                                THEN [readings |-> <<>>, status |-> "normal",
                                      last_update |-> 0]
                                ELSE @[m]]]
               /\ dpc' = "activate"
          ELSE /\ dashboard_data' = dashboard_data
               /\ dpc' = "append"
    /\ view' = NoView
    /\ UNCHANGED <<dmsg, dsent>>
    /\ UNCHANGED <<monitor, locals, env, history, runtime, pure>>

\* handle_sensor_data, line 70
Activate ==
    /\ dpc = "activate"
    /\ dashboard_data' =
            [dashboard_data EXCEPT !.statistics.active_machines = @ + 1]
    /\ dpc' = "append"
    /\ view' = NoView
    /\ UNCHANGED <<dmsg, dsent>>
    /\ UNCHANGED <<monitor, locals, env, history, runtime, pure>>

\* handle_sensor_data, lines 73-74
AppendReading ==
    /\ dpc = "append"
    /\ dashboard_data' =
            [dashboard_data EXCEPT !.machines[dmsg.machine_id].readings =
                Append(@, dmsg)]
    /\ dpc' = "trim"
    /\ view' = NoView
    /\ UNCHANGED <<dmsg, dsent>>
    /\ UNCHANGED <<monitor, locals, env, history, runtime, pure>>

\* handle_sensor_data, lines 75-76
TrimReadings ==
    /\ dpc = "trim"
    /\ dashboard_data' =
            [dashboard_data EXCEPT !.machines[dmsg.machine_id].readings =
                IF Len(@) > keep_readings THEN Tail(@) ELSE @]
    /\ dpc' = "stamp"
    /\ view' = NoView
    /\ UNCHANGED <<dmsg, dsent>>
    /\ UNCHANGED <<monitor, locals, env, history, runtime, pure>>

\* handle_sensor_data, lines 78-85; the callback returns.
Stamp ==
    /\ dpc = "stamp"
    /\ dashboard_data' =
            [dashboard_data EXCEPT
                !.machines[dmsg.machine_id].last_update = dmsg.timestamp,
                !.statistics.total_readings = @ + 1]
    /\ dpc' = "idle"
    /\ dmsg' = NoMessage
    /\ view' = NoView
    /\ UNCHANGED dsent
    /\ UNCHANGED <<monitor, locals, env, history, runtime, pure>>

\* handle_alert, line 90
InsertAlert ==
    /\ dpc = "alert"
    /\ dashboard_data' =
            [dashboard_data EXCEPT !.alerts = <<dmsg>> \o @]
    /\ dpc' = "alert_trim"
    /\ view' = NoView
    /\ UNCHANGED <<dmsg, dsent>>
    /\ UNCHANGED <<monitor, locals, env, history, runtime, pure>>

\* handle_alert, lines 91-92
TrimAlerts ==
    /\ dpc = "alert_trim"
    /\ dashboard_data' =
            [dashboard_data EXCEPT !.alerts =
                IF Len(@) > keep_alerts THEN SubSeq(@, 1, Len(@) - 1) ELSE @]
    /\ dpc' = "alert_count"
    /\ view' = NoView
    /\ UNCHANGED <<dmsg, dsent>>
    /\ UNCHANGED <<monitor, locals, env, history, runtime, pure>>

\* handle_alert, lines 94-102; the callback returns.
CountAlert ==
    /\ dpc = "alert_count"
    /\ dashboard_data' =
            [dashboard_data EXCEPT
                !.statistics.total_anomalies = @ + 1,
                !.machines =
                    [m \in DOMAIN @ |->
                        IF m = dmsg.machine_id
                            THEN [@[m] EXCEPT !.status = "anomaly"]
                            ELSE @[m]]]
    /\ dpc' = "idle"
    /\ dmsg' = NoMessage
    /\ view' = NoView
    /\ UNCHANGED dsent
    /\ UNCHANGED <<monitor, locals, env, history, runtime, pure>>

\* What a reader of the response of get_data sees of d: the number of machine
\* entries, the longest list of readings, the number of alerts, whether the
\* alerts are newest first, and statistics.active_machines.
RECURSIVE MostReadings(_, _)
MostReadings(d, ms) ==
    IF ms = {} THEN 0
    ELSE LET m == CHOOSE x \in ms : TRUE
             rest == MostReadings(d, ms \ {m})
             mine == Len(d.machines[m].readings)
         IN  IF mine > rest THEN mine ELSE rest
Observed(d) ==
    [served |-> TRUE,
     machines |-> Cardinality(DOMAIN d.machines),
     most_readings |-> MostReadings(d, DOMAIN d.machines),
     alerts |-> Len(d.alerts),
     newest_first |->
        \A i \in 1..(Len(d.alerts) - 1) :
            AlertNumber(d.alerts[i].alert_id)
                > AlertNumber(d.alerts[i + 1].alert_id),
     active_machines |-> d.statistics.active_machines]

\* get_data, lines 124-127: a web-server thread serialises dashboard_data.
GetData ==
    /\ view' = Observed(dashboard_data)
    /\ view' # view
    /\ UNCHANGED <<dashboard_data, dpc, dmsg, dsent>>
    /\ UNCHANGED <<monitor, locals, env, history, runtime, pure>>

NextDashboard ==
    \/ DashOnMessage
    \/ NewMachine
    \/ Activate
    \/ AppendReading
    \/ TrimReadings
    \/ Stamp
    \/ InsertAlert
    \/ TrimAlerts
    \/ CountAlert
    \/ GetData

SpecDashboard == InitDashboard /\ [][NextDashboard]_vars

\* C23: every response of get_data shows at most 50 readings for each
\* machine and at most 100 alerts, the alerts newest first, and
\* active_machines equal to the number of machine entries.
C23_ReadersSeeBounds ==
    view.served =>
        /\ view.most_readings <= 50
        /\ view.alerts <= 100
        /\ view.newest_first
        /\ view.active_machines = view.machines

====
